---- MODULE Spec2Model ----
(***************************************************************************)
(* Model of wiki.py: a command-line front end that forwards one request to *)
(* the wikipedia client library and prints either the formatted result or  *)
(* a classified error message.                                             *)
(*                                                                         *)
(* A Python string is a sequence of tokens.  User-supplied text (topic,    *)
(* query) is a sequence of characters over Chars, so that str.capitalize   *)
(* is computed character by character; the literal pieces of an f-string   *)
(* and the values the client returns (summary text, titles, messages) are  *)
(* single tokens.  An f-string is the concatenation of its pieces.         *)
(***************************************************************************)
EXTENDS Integers, Sequences, FiniteSets, TLC

VARIABLES pc, mode, args, calls, out, raised

vars == <<pc, mode, args, calls, out, raised>>

(* ------------------------------ bounds -------------------------------- *)

\* longest topic / query the user types
MaxLen == 2
\* longest candidate list (DisambiguationError.options) or search result
\* list the client hands back; above the [:5] slice so truncation happens
MaxOptions == 7

(* ------------------------- program constants -------------------------- *)

SentenceLimit == 5
ResultLimit == 5
OptionLimit == 5
\* wikipedia.page is called without a limit
NoLimit == 0

(* ------------------------------ strings ------------------------------- *)

Chars == {"a", "A", " "}

Upper(c) == IF c = "a" THEN "A" ELSE c
Lower(c) == IF c = "A" THEN "a" ELSE c

\* all user strings of length 0..MaxLen
Strings == UNION {[1..n -> Chars] : n \in 0..MaxLen}

\* Python None, as a value no user string equals
None == <<"None">>

\* Python truthiness of an optional string: None and "" are falsy
Truthy(x) == x # None /\ x # <<>>

\* str.capitalize(): first character upper-cased, all others lower-cased
capitalize(s) ==
    [i \in 1..Len(s) |-> IF i = 1 THEN Upper(s[i]) ELSE Lower(s[i])]

\* seq[:n]
Take(seq, n) == SubSeq(seq, 1, IF Len(seq) < n THEN Len(seq) ELSE n)

RECURSIVE Join(_, _)
\* sep.join(items), items a sequence of strings
Join(sep, items) ==
    IF items = <<>> THEN <<>>
    ELSE IF Len(items) = 1 THEN items[1]
    ELSE items[1] \o sep \o Join(sep, Tail(items))

(* --------------------------- colour codes ----------------------------- *)

ForeCYAN == "Fore.CYAN"
ForeYELLOW == "Fore.YELLOW"
ForeWHITE == "Fore.WHITE"
ForeRED == "Fore.RED"
ForeMAGENTA == "Fore.MAGENTA"
ForeBLUE == "Fore.BLUE"
ForeGREEN == "Fore.GREEN"
StyleRESET_ALL == "Style.RESET_ALL"
NL == "\n"
\* '=' * 50
Rule == "=================================================="

(* ------------------------ the external client ------------------------- *)

\* exception classes the code names, with their base classes
\* (PageError and DisambiguationError derive from WikipediaException)
Bases(cls) ==
    CASE cls = "PageError" -> {"PageError", "WikipediaException", "Exception"}
      [] cls = "DisambiguationError" ->
            {"DisambiguationError", "WikipediaException", "Exception"}
      [] cls = "WikipediaException" -> {"WikipediaException", "Exception"}
      [] cls = "ValueError" -> {"ValueError", "Exception"}
      [] OTHER -> {}

\* what one client call hands back: cls = "OK" is a normal return
Result(cls, msg, items, text, title) ==
    [cls |-> cls, msg |-> msg, items |-> items, text |-> text, title |-> title]

NoExc == Result("OK", <<>>, <<>>, <<>>, <<>>)

\* `except cls:` matches the raised exception
Catches(cls, r) == cls \in Bases(r.cls)

Title(i) == <<"T" \o ToString(i)>>
Ascending == [i \in 1..MaxOptions |-> Title(i)]
Descending == [i \in 1..MaxOptions |-> Title(MaxOptions + 1 - i)]
\* candidate lists / result lists of every length 0..MaxOptions, two orders
TitleLists == {Take(base, n) : base \in {Ascending, Descending}, n \in 0..MaxOptions}

Texts == {<<"text1">>, <<"text2">>}
Msgs == {<<"msg1">>, <<"msg2">>}

Raise(cls, msg, items) == Result(cls, msg, items, <<>>, <<>>)

Failures ==
    {Raise("PageError", m, <<>>) : m \in {<<"msg1">>}}
    \cup {Raise("DisambiguationError", <<"msg1">>, o) : o \in TitleLists}
    \cup {Raise("WikipediaException", m, <<>>) : m \in Msgs}

\* wikipedia.summary(name, sentences=5)
SummaryOutcomes(name) ==
    {Result("OK", <<>>, <<>>, t, <<>>) : t \in Texts} \cup Failures

\* wikipedia.page(name): the resolved title may differ from the topic
PageOutcomes(name) ==
    {Result("OK", <<>>, <<>>, t, ttl) : t \in {<<"text1">>}, ttl \in {name, Title(1)}}
    \cup Failures

\* wikipedia.search(query, results=5)
SearchOutcomes(query) ==
    {Result("OK", <<>>, l, <<>>, <<>>) : l \in TitleLists} \cup Failures

Langs == {"en", "fr", "xyz"}

\* wikipedia.set_lang(code): "en" is the client's own default and is accepted
LangOutcomes(code) ==
    IF code = "en" THEN {NoExc}
    ELSE {NoExc, Raise("ValueError", <<"msg1">>, <<>>),
          Raise("WikipediaException", <<"msg1">>, <<>>)}

Call(op, arg, limit, res) == [op |-> op, arg |-> arg, limit |-> limit, res |-> res]

\* what a function body leaves behind: printed lines and an escaping exception
Ran(lines, exc) == [lines |-> lines, raised |-> exc]

(* ----------------------------- get_summary ---------------------------- *)

\* the success branch of get_summary: header, text, reset
SummaryLines(name, text) ==
    << <<NL, ForeCYAN, Rule>>,
       <<ForeCYAN, "  [sparkles] Wikipedia Summary for: ", ForeYELLOW>>
           \o capitalize(name) \o <<ForeCYAN, " [sparkles]">>,
       <<ForeCYAN, Rule, NL>>,
       <<ForeWHITE>> \o text,
       <<StyleRESET_ALL>> >>

\* mutant: the not-found line shows the topic capitalized, as the header does
NotFoundLineCapitalized(name) ==
    <<NL, ForeRED, "Error: Page '">> \o capitalize(name)
        \o <<"' not found on Wikipedia.", StyleRESET_ALL>>

\* the line printed under `except wikipedia.exceptions.PageError`
NotFoundLine(name) ==
    <<NL, ForeRED, "Error: Page '">> \o name
        \o <<"' not found on Wikipedia.", StyleRESET_ALL>>

\* mutant: the [:5] slice is forgotten
AllOptions(options) == options

\* e.options[:5]
FirstOptions(options) == Take(options, OptionLimit)

\* the two lines printed under `except wikipedia.exceptions.DisambiguationError`
DisambiguationLines(name, e) ==
    << <<NL, ForeYELLOW, "Disambiguation: '">> \o name
           \o <<"' may refer to multiple topics. Please be more specific.",
                StyleRESET_ALL>>,
       <<ForeYELLOW, "Did you mean one of these? ">>
           \o Join(<<", ">>, FirstOptions(e.items)) \o <<StyleRESET_ALL>> >>

\* get_summary(name), given what wikipedia.summary(name, sentences=5) did
get_summary(name, r) ==
    IF r.cls = "OK" THEN Ran(SummaryLines(name, r.text), NoExc)
    ELSE IF Catches("PageError", r) THEN Ran(<<NotFoundLine(name)>>, NoExc)
    ELSE IF Catches("DisambiguationError", r)
         THEN Ran(DisambiguationLines(name, r), NoExc)
    ELSE Ran(<<>>, r)

(* --------------------------- get_full_content ------------------------- *)

\* the success branch of get_full_content: header with the resolved title
FullContentLines(page) ==
    << <<NL, ForeMAGENTA, Rule>>,
       <<ForeMAGENTA, "  [books] Full Content for: ", ForeWHITE>>
           \o page.title \o <<ForeMAGENTA, " [books]">>,
       <<ForeMAGENTA, Rule, NL>>,
       <<ForeWHITE>> \o page.text,
       <<StyleRESET_ALL>> >>

\* get_full_content(name), given what wikipedia.page(name) did
get_full_content(name, r) ==
    IF r.cls = "OK" THEN Ran(FullContentLines(r), NoExc)
    ELSE IF Catches("PageError", r) THEN Ran(<<NotFoundLine(name)>>, NoExc)
    ELSE IF Catches("DisambiguationError", r)
         THEN Ran(DisambiguationLines(name, r), NoExc)
    ELSE Ran(<<>>, r)

(* ------------------------------ get_results --------------------------- *)

\* the header of the `if results:` branch
SearchHeaderLines(query) ==
    << <<NL, ForeBLUE, Rule>>,
       <<ForeBLUE, "  [glass] Search results for: ", ForeWHITE>>
           \o capitalize(query) \o <<ForeBLUE, " [glass]">>,
       <<ForeBLUE, Rule, NL>> >>

\* for result in results: print("--- {result}")
ResultLines(results) ==
    [i \in 1..Len(results) |->
        <<ForeGREEN, "--- ">> \o results[i] \o <<StyleRESET_ALL>>]

\* the `else:` branch of `if results:`
EmptyResultsLine(query) ==
    <<NL, ForeYELLOW, "No results found for '">> \o query
        \o <<"'.", StyleRESET_ALL>>

\* mutant: the handler drops the exception's message
SearchFailureLineGeneric(e) ==
    <<NL, ForeRED, "An error occurred during search: ", StyleRESET_ALL>>

\* the line printed under `except wikipedia.exceptions.WikipediaException as e`
SearchFailureLine(e) ==
    <<NL, ForeRED, "An error occurred during search: ">> \o e.msg
        \o <<StyleRESET_ALL>>

\* mutant: the `if results:` test is forgotten
SearchLinesUnchecked(query, results) ==
    SearchHeaderLines(query) \o ResultLines(results)

\* the body of the try block once wikipedia.search has returned
SearchLines(query, results) ==
    IF results # <<>> THEN SearchHeaderLines(query) \o ResultLines(results)
    ELSE <<EmptyResultsLine(query)>>

\* get_results(query), given what wikipedia.search(query, results=5) did
get_results(query, r) ==
    IF r.cls = "OK" THEN Ran(SearchLines(query, r.items), NoExc)
    ELSE IF Catches("WikipediaException", r)
         THEN Ran(<<SearchFailureLine(r)>>, NoExc)
    ELSE Ran(<<>>, r)

(* --------------------------------- main ------------------------------- *)

\* the command line: -l CODE (or absent), --full, -s QUERY, -n TOPIC
Argvs ==
    [lang : Langs \cup {"absent"}, full : BOOLEAN,
     search : Strings \cup {None}, name : Strings \cup {None}]

\* the required mutually exclusive group: exactly one of -s / -n is present
GroupOK(argv) == (argv.search = None) # (argv.name = None)

\* parser.parse_args(): -l defaults to "en"
Namespace(argv) ==
    [lang |-> IF argv.lang = "absent" THEN "en" ELSE argv.lang,
     full |-> argv.full, search |-> argv.search, name |-> argv.name]

NoArgs == [lang |-> "en", full |-> FALSE, search |-> None, name |-> None]

UnsupportedLine(lang) ==
    <<NL, ForeRED, "Error: The language code '", lang,
      "' is not supported. Using English ('en') instead.", StyleRESET_ALL>>

\* mutant: the handler prints the message and forgets set_lang("en")
LangFallbackMessageOnly(lang) ==
    [lines |-> <<UnsupportedLine(lang)>>, calls |-> <<>>]

\* the `except ValueError:` handler: message, then set_lang("en")
LangFallback(lang) ==
    [lines |-> <<UnsupportedLine(lang)>>,
     calls |-> <<Call("set_lang", <<"en">>, NoLimit, NoExc)>>]

\* the try/except around wikipedia.set_lang(args.lang)
SetLang(lang, r) ==
    IF r.cls = "OK" THEN [lines |-> <<>>, calls |-> <<>>, raised |-> NoExc]
    ELSE IF Catches("ValueError", r)
         THEN [lines |-> LangFallback(lang).lines,
               calls |-> LangFallback(lang).calls, raised |-> NoExc]
    ELSE [lines |-> <<>>, calls |-> <<>>, raised |-> r]

UsageLines ==
    << <<NL, ForeRED,
         "Error: The '--full' flag must be used with a topic name using '-n'.",
         StyleRESET_ALL>>,
       <<"parser.print_help()">> >>

\* mutant: --full is not looked at once a topic is given
BranchIgnoringFull(a) ==
    IF Truthy(a.name) THEN "summary"
    ELSE IF Truthy(a.search) THEN "search"
    ELSE IF a.full THEN "usage"
    ELSE "none"

\* which branch of the if/elif chain at the end of main is taken
Branch(a) ==
    IF Truthy(a.name) THEN (IF a.full THEN "full" ELSE "summary")
    ELSE IF Truthy(a.search) THEN "search"
    ELSE IF a.full THEN "usage"
    ELSE "none"

(* ------------------------------- actions ------------------------------ *)

Init ==
    /\ pc = "start"
    /\ mode = "none"
    /\ args = NoArgs
    /\ calls = <<>>
    /\ out = <<>>
    /\ raised = NoExc

\* a function body ran: its lines are printed, its exception (if any) escapes
Finish(call, ran) ==
    /\ calls' = Append(calls, call)
    /\ out' = out \o ran.lines
    /\ raised' = ran.raised
    /\ pc' = IF ran.raised = NoExc THEN "done" ELSE "crashed"

DoSummary(name) ==
    \E r \in SummaryOutcomes(name) :
        Finish(Call("summary", name, SentenceLimit, r), get_summary(name, r))

DoFullContent(name) ==
    \E r \in PageOutcomes(name) :
        Finish(Call("page", name, NoLimit, r), get_full_content(name, r))

DoResults(query) ==
    \E r \in SearchOutcomes(query) :
        Finish(Call("search", query, ResultLimit, r), get_results(query, r))

\* main: parse_args accepts the command line
ParseArgs ==
    /\ pc = "start"
    /\ \E argv \in Argvs :
        /\ GroupOK(argv)
        /\ args' = Namespace(argv)
    /\ mode' = "main"
    /\ pc' = "parsed"
    /\ UNCHANGED <<calls, out, raised>>

\* main: parse_args rejects the command line and exits the process
ParseArgsExit ==
    /\ pc = "start"
    /\ \E argv \in Argvs :
        /\ ~GroupOK(argv)
        /\ args' = Namespace(argv)
    /\ mode' = "main"
    /\ pc' = "exit"
    /\ UNCHANGED <<calls, out, raised>>

\* main: language selection with its fallback
MainSetLang ==
    /\ pc = "parsed"
    /\ \E r \in LangOutcomes(args.lang) :
        LET s == SetLang(args.lang, r) IN
        /\ calls' = calls \o <<Call("set_lang", <<args.lang>>, NoLimit, r)>> \o s.calls
        /\ out' = out \o s.lines
        /\ raised' = s.raised
        /\ pc' = IF s.raised = NoExc THEN "dispatch" ELSE "crashed"
    /\ UNCHANGED <<mode, args>>

MainFull ==
    /\ pc = "dispatch" /\ Branch(args) = "full"
    /\ DoFullContent(args.name)
    /\ UNCHANGED <<mode, args>>

MainSummary ==
    /\ pc = "dispatch" /\ Branch(args) = "summary"
    /\ DoSummary(args.name)
    /\ UNCHANGED <<mode, args>>

MainSearch ==
    /\ pc = "dispatch" /\ Branch(args) = "search"
    /\ DoResults(args.search)
    /\ UNCHANGED <<mode, args>>

MainUsage ==
    /\ pc = "dispatch" /\ Branch(args) = "usage"
    /\ out' = out \o UsageLines
    /\ pc' = "done"
    /\ UNCHANGED <<mode, args, calls, raised>>

MainNothing ==
    /\ pc = "dispatch" /\ Branch(args) = "none"
    /\ pc' = "done"
    /\ UNCHANGED <<mode, args, calls, out, raised>>

\* the functions called on their own, as the tests call them
CallGetSummary ==
    /\ pc = "start"
    /\ \E name \in Strings :
        /\ args' = [NoArgs EXCEPT !.name = name]
        /\ DoSummary(name)
    /\ mode' = "get_summary"

CallGetFullContent ==
    /\ pc = "start"
    /\ \E name \in Strings :
        /\ args' = [NoArgs EXCEPT !.name = name, !.full = TRUE]
        /\ DoFullContent(name)
    /\ mode' = "get_full_content"

CallGetResults ==
    /\ pc = "start"
    /\ \E query \in Strings :
        /\ args' = [NoArgs EXCEPT !.search = query]
        /\ DoResults(query)
    /\ mode' = "get_results"

Next ==
    \/ ParseArgs
    \/ ParseArgsExit
    \/ MainSetLang
    \/ MainFull
    \/ MainSummary
    \/ MainSearch
    \/ MainUsage
    \/ MainNothing
    \/ CallGetSummary
    \/ CallGetFullContent
    \/ CallGetResults

Spec == Init /\ [][Next]_vars

(* ------------------------ reading the outcome ------------------------- *)

Markup ==
    {ForeCYAN, ForeYELLOW, ForeWHITE, ForeRED, ForeMAGENTA, ForeBLUE,
     ForeGREEN, StyleRESET_ALL, NL}

IsText(tok) == tok \notin Markup

\* the output with colour codes and blank-line newlines removed
PlainOut == [i \in 1..Len(out) |-> SelectSeq(out[i], IsText)]

IsFetch(c) == c.op \in {"summary", "page", "search"}
IsLang(c) == c.op = "set_lang"

FetchCalls == SelectSeq(calls, IsFetch)
LangCalls == SelectSeq(calls, IsLang)

\* main or a directly called function has ended, normally or not
Ended == pc \in {"done", "crashed"}

\* the templates of the user-facing messages
UnsupportedMsg(code) ==
    <<"Error: The language code '", code,
      "' is not supported. Using English ('en') instead.">>
NotFoundMsg(name) == <<"Error: Page '">> \o name \o <<"' not found on Wikipedia.">>
DisambiguationMsg(name) ==
    <<"Disambiguation: '">> \o name
        \o <<"' may refer to multiple topics. Please be more specific.">>
EmptyResultsMsg(query) == <<"No results found for '">> \o query \o <<"'.">>
SearchFailurePrefix == "An error occurred during search: "
SearchHeaderMsg(shown) ==
    <<"  [glass] Search results for: ">> \o shown \o <<" [glass]">>
UsageMsg ==
    <<"Error: The '--full' flag must be used with a topic name using '-n'.">>
HelpText == <<"parser.print_help()">>

\* the unsupported-language message, when main printed it, is the first line
LangPrinted == PlainOut # <<>> /\ PlainOut[1] = UnsupportedMsg(args.lang)

\* what the fetch operation printed
FetchOut == IF LangPrinted THEN Tail(PlainOut) ELSE PlainOut

\* the one fetch call of this run and what the client did on it
Fetched == FetchCalls # <<>>
TheFetch == FetchCalls[1]

\* s occurs in line as a contiguous run of tokens
Includes(line, s) ==
    \E k \in 0..(Len(line) - Len(s)) :
        \A i \in 1..Len(s) : line[k + i] = s[i]

Min(a, b) == IF a < b THEN a ELSE b

(* ------------------------------- claims ------------------------------- *)

\* C1: whenever the client rejects the user-supplied language code, whatever
\* failure it signals, the client receives exactly the two language calls
\* (original code, then "en"), the unsupported-language message naming the
\* original code is printed, and the requested fetch is still performed.
C1_RejectedLanguageFallsBack ==
    (mode = "main" /\ Ended /\ calls # <<>> /\ calls[1].res.cls # "OK")
        => /\ Len(LangCalls) = 2
           /\ LangCalls[1].arg = <<args.lang>>
           /\ LangCalls[2].arg = <<"en">>
           /\ LangPrinted
           /\ (Truthy(args.name) \/ Truthy(args.search)) => Len(FetchCalls) = 1

\* C2: no failure signalled by the client escapes: every operation ends
\* normally, and a failed client call has left a printed message.
C2_NoFailureEscapes ==
    /\ pc # "crashed"
    /\ (pc = "done" /\ \E i \in 1..Len(calls) : calls[i].res.cls # "OK")
           => out # <<>>

\* C3: every completed invocation with --full and no topic (-s QUERY --full
\* and -n "" included) printed the usage error followed by the help text and
\* made no fetch call.
C3_FullWithoutNameIsUsageError ==
    (mode = "main" /\ pc = "done" /\ args.full /\ ~Truthy(args.name))
        => /\ FetchOut = <<UsageMsg, HelpText>>
           /\ FetchCalls = <<>>

\* C4 as stated: on a general search failure the output includes both the
\* query and the underlying failure message.
C4_FailureOutputHasQueryAndMessage ==
    (Fetched /\ TheFetch.op = "search" /\ TheFetch.res.cls = "WikipediaException")
        => /\ Len(FetchOut) = 1
           /\ FetchOut[1][1] = SearchFailurePrefix
           /\ Includes(FetchOut[1], TheFetch.res.msg)
           /\ Includes(FetchOut[1], args.search)

\* C4 amended: on a general search failure get_results prints exactly the
\* search-failure message carrying the underlying failure message.
C4_FailureOutputHasMessage ==
    (Fetched /\ TheFetch.op = "search" /\ TheFetch.res.cls = "WikipediaException")
        => FetchOut = << <<SearchFailurePrefix>> \o TheFetch.res.msg >>

C4_Witness ==
    /\ pc = "done" /\ Fetched /\ TheFetch.op = "search"
    /\ TheFetch.res.cls = "WikipediaException"
    /\ TheFetch.res.msg = <<"msg2">>
    /\ Truthy(args.search)

\* C5: in main, every fetch call comes after the language call with the
\* requested code and, when that one failed, after the fallback call with
\* "en"; no language call follows a fetch call.
C5_LanguageBeforeFetch ==
    mode = "main" =>
        \A i \in 1..Len(calls) :
            IsFetch(calls[i]) =>
                /\ i > 1
                /\ calls[1].op = "set_lang" /\ calls[1].arg = <<args.lang>>
                /\ calls[1].res.cls # "OK"
                       => /\ i > 2
                          /\ calls[2].op = "set_lang" /\ calls[2].arg = <<"en">>
                /\ \A j \in 1..Len(calls) :
                       /\ j < i => IsLang(calls[j])
                       /\ j > i => ~IsLang(calls[j])

C5_Witness ==
    /\ mode = "main" /\ pc = "done"
    /\ Len(calls) = 3 /\ calls[1].res.cls = "ValueError" /\ IsFetch(calls[3])

\* the candidates as printed: the first min(N,5), in order, ", " between them
ExpectedCandidates(items) ==
    [k \in 1..(IF items = <<>> THEN 0 ELSE 2 * Min(Len(items), 5) - 1) |->
        IF k % 2 = 1 THEN items[(k + 1) \div 2][1] ELSE ", "]

\* C6: on "ambiguous" with N candidates, get_summary and get_full_content
\* print the disambiguation message naming the topic as given, then the first
\* min(N,5) candidates in order joined by ", ", and nothing else.
C6_AmbiguousListsFirstFive ==
    (Fetched /\ TheFetch.op \in {"summary", "page"}
             /\ TheFetch.res.cls = "DisambiguationError")
        => /\ FetchOut =
                << DisambiguationMsg(args.name),
                   <<"Did you mean one of these? ">>
                       \o ExpectedCandidates(TheFetch.res.items) >>
           /\ \A i \in 1..Len(TheFetch.res.items) :
                  i > 5 => ~Includes(FetchOut[2], TheFetch.res.items[i])

C6_Witness ==
    /\ pc = "done" /\ Fetched /\ TheFetch.op = "page"
    /\ TheFetch.res.cls = "DisambiguationError"
    /\ Len(TheFetch.res.items) > 5
    /\ TheFetch.res.items[1] # Title(1)

\* C7: on an empty result list get_results prints exactly the empty-results
\* message with the query as given; the search-failure message appears only
\* when the search call failed.
C7_EmptyResultsIsNotFailure ==
    /\ (Fetched /\ TheFetch.op = "search" /\ TheFetch.res.cls = "OK"
                /\ TheFetch.res.items = <<>>)
           => FetchOut = <<EmptyResultsMsg(args.search)>>
    /\ (\E i \in 1..Len(PlainOut) :
            PlainOut[i] # <<>> /\ PlainOut[i][1] = SearchFailurePrefix)
           => (Fetched /\ TheFetch.op = "search" /\ TheFetch.res.cls # "OK")

C7_Witness ==
    /\ pc = "done" /\ Fetched /\ TheFetch.op = "search"
    /\ TheFetch.res.cls = "OK" /\ TheFetch.res.items = <<>>
    /\ args.search = <<"a", "A">>

\* C8: on "not found", get_summary and get_full_content print exactly the
\* not-found message with the topic as the user gave it, and nothing else.
C8_NotFoundNamesTopicAsGiven ==
    (Fetched /\ TheFetch.op \in {"summary", "page"}
             /\ TheFetch.res.cls = "PageError")
        => FetchOut = <<NotFoundMsg(args.name)>>

C8_Witness ==
    /\ pc = "done" /\ Fetched /\ TheFetch.op = "summary"
    /\ TheFetch.res.cls = "PageError"
    /\ args.name = <<"a", "A">>

\* C9: on a non-empty result list, a query that already begins with an
\* upper-case letter is shown unchanged in the search header, followed by
\* every returned title in order, each prefixed with "--- ".
C9_HeaderPreservesQuery ==
    (Fetched /\ TheFetch.op = "search" /\ TheFetch.res.cls = "OK"
             /\ TheFetch.res.items # <<>>
             /\ args.search # <<>> /\ args.search[1] = "A")
        => /\ Len(FetchOut) = 3 + Len(TheFetch.res.items)
           /\ FetchOut[2] = SearchHeaderMsg(args.search)
           /\ \A i \in 1..Len(TheFetch.res.items) :
                  FetchOut[3 + i] = <<"--- ">> \o TheFetch.res.items[i]

\* the fetch call main owes the command line
IsRequestedFetch(c) ==
    /\ args.name # None /\ ~args.full
           => c.op = "summary" /\ c.arg = args.name /\ c.limit = 5
    /\ args.name # None /\ args.full => c.op = "page" /\ c.arg = args.name
    /\ args.search # None
           => c.op = "search" /\ c.arg = args.search /\ c.limit = 5

====
